---- MODULE Spec2Model ----
(***************************************************************************)
(* A model of the rstuf command line client: the `admin ceremony`,         *)
(* `artifact add` and `admin metadata new` commands.                       *)
(*                                                                         *)
(* One behaviour is one invocation of one command.  Init draws the command *)
(* and its options; every action is one step of the command's handler; the *)
(* answers of the operator, of the API server, of the container registry   *)
(* and of the local file system are inputs drawn with \E.                  *)
(*                                                                         *)
(* A Python str is a sequence of tokens: a token is one of the separator   *)
(* characters "/", ":", ".", "@" or a word without separators.  Python's   *)
(* None is the value None below, which is no sequence over the tokens.     *)
(***************************************************************************)
EXTENDS Integers, Sequences, FiniteSets, TLC

\* ------------------------------------------------------------------ bounds
\* longest ARTIFACT argument of `artifact add`, in tokens
MaxRefLen == 2
\* longest -p/--path argument of `artifact add`, in tokens
MaxPathLen == 2
\* largest local file, in bytes
MaxFileSize == 1
\* most manifests listed by an OCI image index
MaxManifests == 2
\* largest number of keys the operator asks for one role
MaxNumKeys == 2
\* most task-status polls of one _bootstrap_state call
MaxPolls == 2
MaxComponents == 2

\* ----------------------------------------------------------------- strings
None == <<"None">>

Truthy(s) == s # None /\ s # <<>>

RECURSIVE StringsUpTo(_, _)
StringsUpTo(alphabet, n) ==
    IF n = 0 THEN {<<>>}
    ELSE LET shorter == StringsUpTo(alphabet, n - 1)
         IN  shorter \cup {Append(s, c) : s \in shorter, c \in alphabet}

Contains(s, c) == \E i \in 1..Len(s) : s[i] = c

\* index of the last c in s, 0 when there is none
LastIndexOf(s, c) ==
    IF Contains(s, c)
    THEN CHOOSE i \in 1..Len(s) : s[i] = c /\ \A j \in (i + 1)..Len(s) : s[j] # c
    ELSE 0

\* index of the first c in s, 0 when there is none
FirstIndexOf(s, c) ==
    IF Contains(s, c)
    THEN CHOOSE i \in 1..Len(s) : s[i] = c /\ \A j \in 1..(i - 1) : s[j] # c
    ELSE 0

\* s.split(c)[-1]
SplitLast(s, c) == SubSeq(s, LastIndexOf(s, c) + 1, Len(s))

\* s.split(c)[0]
SplitFirst(s, c) ==
    IF Contains(s, c) THEN SubSeq(s, 1, FirstIndexOf(s, c) - 1) ELSE s

\* s.split(c, 1)[1], for s that contains c
SplitRest(s, c) == SubSeq(s, FirstIndexOf(s, c) + 1, Len(s))

\* s.rsplit(c, 1)[0], for s that contains c
RSplitHead(s, c) == SubSeq(s, 1, LastIndexOf(s, c) - 1)

\* s.rstrip(c)
RECURSIVE RStrip(_, _)
RStrip(s, c) ==
    IF s # <<>> /\ s[Len(s)] = c THEN RStrip(SubSeq(s, 1, Len(s) - 1), c) ELSE s

\* s.endswith(c)
EndsWith(s, c) == s # <<>> /\ s[Len(s)] = c

\* s.split(c): the parts of s between the occurrences of c
RECURSIVE Split(_, _)
Split(s, c) ==
    IF Contains(s, c)
    THEN <<SplitFirst(s, c)>> \o Split(SplitRest(s, c), c)
    ELSE <<s>>

\* c.join(parts)
RECURSIVE Join(_, _)
Join(parts, c) ==
    IF parts = <<>> THEN <<>>
    ELSE IF Len(parts) = 1 THEN parts[1]
    ELSE parts[1] \o <<c>> \o Join(Tail(parts), c)

\* ------------------------------------------------------------------ inputs
Commands == {"ceremony", "add", "new", "download"}

\* tokens of the ARTIFACT argument and of the -p/--path option
RefTokens == {"a", "/", ":", ".", "@"}
PathTokens == {"p", "/"}

Refs == StringsUpTo(RefTokens, MaxRefLen)
Paths == StringsUpTo(PathTokens, MaxPathLen) \cup {None}

\* the contents a local file can have, a sequence of bytes
FileContents == StringsUpTo({"x"}, MaxFileSize)

ApiServers == {None, <<>>, <<"api">>}
ConfiguredServers == {None, <<"srv">>}

AddOptions ==
    [artifact : Refs, oci_image : BOOLEAN, path : Paths,
     api_server : ApiServers]

NewOptions == [out : {None, <<"new-targets", ".", "json">>}, dry_run : BOOLEAN]

\* what _configure_delegations can return
DelegationResults == {"delegations-1", "delegations-2"}
Unbound == "Unbound"

\* ------------------------------------------------------------------- state
VARIABLES
    command,      \* the command that was invoked
    opts,         \* its command line options
    pc,           \* position in the command's handler
    error,        \* message of the exception that ended the command, or ""
    settings,     \* context.obj["settings"]
    requests,     \* requests sent to the API server, in order
    prompted,     \* TRUE once a prompt was shown to the operator
    output,       \* the console messages the claims are about
    fileOps,      \* operations on the local file system, in order
    payload,      \* artifact add: payload
    hashed,       \* artifact add: the local files that were hashed
    fetches,      \* artifact add: documents fetched from the registry
    oci,          \* artifact add: locals of add_container_oci
    delegations,  \* metadata new: the local variable `delegations`
    SETTINGS,     \* ceremony: the module-level PayloadSettings
    cer,          \* ceremony: locals of the handler and of its loops
    progress,     \* ceremony: the roles each step has completed
    initCalls,    \* ceremony: the calls of initialize_metadata, in order
    taskServer,   \* ceremony: what the API server answers about the task
    dl,           \* artifact download: parameters in use and calls made
    parsed        \* what _parse_container_url made of a reference

sharedVars == <<command, opts, settings, requests, prompted, output, fileOps>>
addVars == <<payload, hashed, fetches, oci>>
newVars == <<delegations>>
dlVars == <<dl>>
parseVars == <<parsed>>
pollVars == <<taskServer>>
restVars == <<dlVars, parseVars, pollVars>>
cerVars == <<SETTINGS, cer, progress, initCalls>>
vars == <<pc, error, sharedVars, addVars, newVars, cerVars, restVars>>

NoPayload == [none |-> TRUE]

\* a server answers SUCCESS, FAILURE or an error after `pending` answers with
\* another state, or never does
Forever == -1
NoServer == [pending |-> 0]
ServerScripts == [pending : (0 .. MaxPolls) \cup {Forever}]

\* no reference was parsed yet
NotParsed == [none |-> TRUE]
NoOci == [none |-> TRUE]

\* raise click.ClickException(msg)
ClickException(msg) == pc' = "failed" /\ error' = msg

\* an exception no handler of the command catches
Crash(exc) == pc' = "crashed" /\ error' = exc

\* sys.exit(1)
SysExit == pc' = "exited" /\ error' = "exit 1"

Goto(label) == pc' = label /\ error' = error

Ended == pc \in {"done", "failed", "crashed", "exited"}

\* ------------------------------------------------------------ artifact add
Blake2b256 == <<"blake2b-256">>

\* hashlib.blake2b(digest_size=32) over the content of the file
calculate_blake2b_256(content) == <<"blake2b">> \o content

\* lines 96-99 with the trailing '/' of the path kept
payload_path_unstripped(filepath, path) ==
    IF Truthy(path)
    THEN path \o <<"/">> \o SplitLast(filepath, "/")
    ELSE SplitLast(filepath, "/")

\* create_artifact_add_payload_from_filepath, lines 96-99
payload_path(filepath, path) ==
    IF Truthy(path)
    THEN RStrip(path, "/") \o <<"/">> \o SplitLast(filepath, "/")
    ELSE SplitLast(filepath, "/")

create_artifact_add_payload_from_filepath(filepath, path, content) ==
    LET length == Len(content)
        blake2b_256_hash == calculate_blake2b_256(content)
    IN  [artifacts |->
            <<[info |-> [length |-> length,
                         hashes |-> (Blake2b256 :> blake2b_256_hash),
                         custom |-> None],
               path |-> payload_path(filepath, path)]>>,
         add_task_id_to_custom |-> FALSE,
         publish_artifacts |-> TRUE]

\* line 82 without its check
ServerMissing_unchecked(resolved) == FALSE

\* `settings.get("SERVER") is None`, line 82
ServerMissing(resolved) == resolved.SERVER = None

\* add, lines 77-86
AddStart ==
    /\ command = "add" /\ pc = "start"
    /\ LET resolved == IF Truthy(opts.api_server)
                       THEN [settings EXCEPT !.SERVER = opts.api_server]
                       ELSE settings
       IN  /\ settings' = resolved
           /\ IF ServerMissing(resolved)
              THEN ClickException("Requires '--api-server'")
              ELSE Goto("add_inspect")
    /\ UNCHANGED <<command, opts, requests, prompted, output, fileOps>>
    /\ UNCHANGED <<addVars, newVars, restVars, cerVars>>

\* add, lines 88-91: the artifact is a local file
AddLocalFile ==
    /\ command = "add" /\ pc = "add_inspect"
    /\ ~opts.oci_image
    /\ opts.artifact # <<>> /\ ~EndsWith(opts.artifact, "/")
    /\ \E content \in FileContents :
          /\ payload' = create_artifact_add_payload_from_filepath(
                            opts.artifact, opts.path, content)
          /\ hashed' = hashed \cup {opts.artifact}
          /\ fileOps' = Append(fileOps, [op |-> "read", file |-> opts.artifact,
                                         content |-> content])
    /\ Goto("add_send")
    /\ UNCHANGED <<command, opts, settings, requests, prompted, output>>
    /\ UNCHANGED <<fetches, oci, newVars, restVars, cerVars>>

\* the registry and the words that start with "registry"
DockerHub == <<"registry-1", ".", "docker", ".", "io">>
RegistryWords == {"registry", "registry-1"}
IndexError == <<"IndexError">>

\* part.startswith("registry")
StartsWithRegistry(part) == part # <<>> /\ part[1] \in RegistryWords

_parse_container_url(url) ==
    LET hasTag == Contains(url, ":")
        image_part == IF hasTag THEN RSplitHead(url, ":") ELSE url
        tag == IF hasTag THEN SplitLast(url, ":") ELSE <<"latest">>
        allParts == Split(image_part, "/")
        isServer == Contains(allParts[1], ".") \/ StartsWithRegistry(allParts[1])
        server == IF isServer THEN allParts[1] ELSE DockerHub
        parts == IF isServer THEN Tail(allParts) ELSE allParts
        image == parts[Len(parts)]
        path == IF Len(parts) > 1
                THEN Join(SubSeq(parts, 1, Len(parts) - 1), "/")
                ELSE IF server = DockerHub THEN <<"library">> ELSE <<>>
    IN  IF parts = <<>> THEN IndexError
        ELSE IF path # <<>>
        THEN server \o <<"/">> \o path \o <<"/">> \o image \o <<":">> \o tag
        ELSE server \o <<"/">> \o image \o <<":">> \o tag

_add_to_rstuf_in_front(path, size, digest, pl) ==
    [pl EXCEPT !.artifacts =
        <<[info |-> [length |-> size,
                     hashes |-> (SplitFirst(digest, ":") :>
                                 SplitFirst(SplitRest(digest, ":"), ":"))],
           path |-> path]>> \o @]
_add_to_rstuf(path, size, digest, pl) ==
    [pl EXCEPT !.artifacts =
        Append(@, [info |-> [length |-> size,
                             hashes |-> (SplitFirst(digest, ":") :>
                                         SplitFirst(SplitRest(digest, ":"), ":"))],
                   path |-> path])]

\* the documents a registry serves; `dumps` names the bytes json.dumps makes
\* of the document, and SerialLen their number
IndexMediaType == "application/vnd.oci.image.index.v1+json"
ManifestMediaType == "application/vnd.oci.image.manifest.v1+json"
SerialLen == ("ix" :> 3) @@ ("m1" :> 1) @@ ("m2" :> 2)
ListedDigests == {<<"sha256", ":", "m1">>, <<"sha256", ":", "m2">>}

RECURSIVE SeqsUpTo(_, _)
SeqsUpTo(S, n) ==
    IF n = 0 THEN {<<>>}
    ELSE LET shorter == SeqsUpTo(S, n - 1)
         IN  shorter \cup {Append(q, e) : q \in shorter, e \in S}

IndexDocs ==
    {[mediaType |-> IndexMediaType, dumps |-> "ix", manifests |-> ms] :
        ms \in SeqsUpTo([digest : ListedDigests], MaxManifests)}
    \cup {[mediaType |-> IndexMediaType, dumps |-> "ix"]}
ManifestDocs == [mediaType : {ManifestMediaType}, dumps : {"m1", "m2"}]
UntypedDocs == {[schemaVersion |-> 2, dumps |-> "m1"]}
FetchError == [error |-> TRUE]

\* hashlib.sha256(data).hexdigest(), data the bytes json.dumps made
Sha256Hex(doc) == <<doc.dumps>>

_calculate_size_and_hash(doc) ==
    [size |-> SerialLen[doc.dumps],
     digest |-> <<"sha256">> \o <<":">> \o Sha256Hex(doc)]

\* re.split(r"[@:]", uri, maxsplit=1)[0]
BeforeFirstAtOrColon(uri) ==
    IF \E i \in 1..Len(uri) : uri[i] \in {"@", ":"}
    THEN SubSeq(uri, 1, (CHOOSE i \in 1..Len(uri) :
                            /\ uri[i] \in {"@", ":"}
                            /\ \A j \in 1..(i - 1) : uri[j] \notin {"@", ":"}) - 1)
    ELSE uri

_get_uri_for_digest(uri, digest) == BeforeFirstAtOrColon(uri) \o <<"@">> \o digest

_sanitize_dockerhub_path(image_ref, path) == path

\* raw_data.get("manifests", [])
ManifestsOf(raw_data) ==
    IF "manifests" \in DOMAIN raw_data THEN raw_data.manifests ELSE <<>>

\* add, lines 92-94, and add_container_oci, lines 126-165 and 182-193:
\* up to the artifact of the index, or both artifacts of a single manifest
AddContainerOci ==
    /\ command = "add" /\ pc = "add_inspect"
    /\ UNCHANGED <<command, opts, settings, requests, prompted, output, fileOps>>
    /\ UNCHANGED <<hashed, newVars, restVars, cerVars>>
    /\ \E isfile \in BOOLEAN :
          /\ isfile => opts.artifact # <<>> /\ ~EndsWith(opts.artifact, "/")
          /\ opts.oci_image \/ ~isfile
    /\ IF Contains(opts.artifact, "@")
       THEN SysExit /\ UNCHANGED <<payload, fetches, oci>>
       ELSE
       LET image_ref == _parse_container_url(opts.artifact) IN
       IF image_ref = IndexError
       THEN Crash("IndexError") /\ UNCHANGED <<payload, fetches, oci>>
       ELSE
       LET repo == IF Contains(image_ref, "@")
                   THEN SplitFirst(image_ref, "@")
                   ELSE RSplitHead(image_ref, ":")
           tag_or_digest == IF Contains(image_ref, "@")
                            THEN SplitRest(image_ref, "@")
                            ELSE SplitLast(image_ref, ":")
           rstuf_path_base == IF Len(Split(repo, "/")) > 1
                              THEN SplitRest(repo, "/")
                              ELSE repo
           tag_path == _sanitize_dockerhub_path(
                           image_ref, rstuf_path_base \o <<":">> \o tag_or_digest)
       IN
       \E raw_data \in IndexDocs \cup ManifestDocs \cup UntypedDocs \cup {FetchError} :
          /\ fetches' = Append(fetches, [call |-> "get_raw_data",
                                         container |-> image_ref,
                                         document |-> raw_data])
          /\ IF raw_data = FetchError
             THEN SysExit /\ UNCHANGED <<payload, oci>>
             ELSE IF "mediaType" \notin DOMAIN raw_data
             THEN Crash("KeyError") /\ UNCHANGED <<payload, oci>>
             ELSE
             LET sh == _calculate_size_and_hash(raw_data)
                 first == _add_to_rstuf(tag_path, sh.size, sh.digest,
                                        [artifacts |-> <<>>])
             IN  IF raw_data.mediaType = IndexMediaType
                 THEN /\ payload' = first
                      /\ oci' = [image_ref |-> image_ref,
                                 rstuf_path_base |-> rstuf_path_base,
                                 raw_data |-> raw_data, next |-> 1]
                      /\ Goto(IF ManifestsOf(raw_data) = <<>>
                              THEN "add_send" ELSE "add_manifests")
                 ELSE /\ payload' = _add_to_rstuf(
                                        rstuf_path_base \o <<"@">> \o sh.digest,
                                        sh.size, sh.digest, first)
                      /\ oci' = oci
                      /\ Goto("add_send")

\* add_container_oci, lines 168-180: one manifest of the index
AddOciManifest ==
    /\ command = "add" /\ pc = "add_manifests"
    /\ LET manifest == ManifestsOf(oci.raw_data)[oci.next]
           digest == manifest.digest
           manifest_path == _sanitize_dockerhub_path(
                                oci.image_ref,
                                oci.rstuf_path_base \o <<"@">> \o digest)
       IN  \E manifest_data \in ManifestDocs \cup {FetchError} :
              /\ fetches' = Append(fetches,
                     [call |-> "get_manifest",
                      container |-> _get_uri_for_digest(oci.image_ref, digest),
                      document |-> manifest_data])
              /\ IF manifest_data = FetchError
                 THEN Crash("registry error") /\ UNCHANGED <<payload, oci>>
                 ELSE LET sh == _calculate_size_and_hash(manifest_data)
                      IN  /\ payload' = _add_to_rstuf(manifest_path, sh.size,
                                                      sh.digest, payload)
                          /\ oci' = [oci EXCEPT !.next = @ + 1]
                          /\ Goto(IF oci.next = Len(ManifestsOf(oci.raw_data))
                                  THEN "add_send" ELSE "add_manifests")
    /\ UNCHANGED <<command, opts, settings, requests, prompted, output, fileOps>>
    /\ UNCHANGED <<hashed, newVars, restVars, cerVars>>

\* add, lines 96-106: send_payload posts the payload and waits for a task id
AddSend ==
    /\ command = "add" /\ pc = "add_send"
    /\ requests' = Append(requests, [method |-> "post",
                                     url |-> "api/v1/artifacts/",
                                     payload |-> payload])
    /\ \E accepted \in BOOLEAN :
          IF accepted
          THEN Goto("done") /\ output' = output \cup {"Successfully submitted task"}
          ELSE ClickException("Error Artifact Addition") /\ output' = output
    /\ UNCHANGED <<command, opts, settings, prompted, fileOps>>
    /\ UNCHANGED <<addVars, newVars, restVars, cerVars>>

\* ------------------------------------------------------------ metadata new
\* lines 121-131 put back without the test of dry_run
SendsResult_ignoring_dry_run(server, dry_run) == server # None

\* new, lines 121-131: the block that sends the result is commented out
SendsResult(server, dry_run) == FALSE

\* new, lines 93-102
NewStart ==
    /\ command = "new" /\ pc = "start"
    /\ IF settings.SERVER = None /\ ~opts.dry_run
       THEN ClickException("Either '--api-sever' or '--dry-run' needed")
       ELSE Goto("new_save")
    /\ UNCHANGED <<sharedVars, addVars, newVars, restVars, cerVars>>

\* new, lines 116-118: `delegations` is read before line 120 assigns it
NewSave ==
    /\ command = "new" /\ pc = "new_save"
    /\ IF opts.out # None
       THEN IF delegations = Unbound
            THEN Crash("UnboundLocalError") /\ UNCHANGED <<fileOps, output>>
            ELSE /\ fileOps' = Append(fileOps,
                        [op |-> "write", file |-> opts.out,
                         content |-> [delegations |-> delegations]])
                 /\ output' = output \cup {"Saved result to"}
                 /\ Goto("new_configure")
       ELSE Goto("new_configure") /\ UNCHANGED <<fileOps, output>>
    /\ UNCHANGED <<command, opts, settings, requests, prompted>>
    /\ UNCHANGED <<addVars, newVars, restVars, cerVars>>

\* new, line 120
NewConfigure ==
    /\ command = "new" /\ pc = "new_configure"
    /\ \E result \in DelegationResults : delegations' = result
    /\ prompted' = TRUE
    /\ Goto("new_send")
    /\ UNCHANGED <<command, opts, settings, requests, output, fileOps>>
    /\ UNCHANGED <<addVars, restVars, cerVars>>

\* new, lines 121-131
NewSend ==
    /\ command = "new" /\ pc = "new_send"
    /\ requests' = IF SendsResult(settings.SERVER, opts.dry_run)
                   THEN Append(requests, [method |-> "post",
                                          url |-> "api/v1/delegations",
                                          payload |-> delegations])
                   ELSE requests
    /\ Goto("done")
    /\ UNCHANGED <<command, opts, settings, prompted, output, fileOps>>
    /\ UNCHANGED <<addVars, newVars, restVars, cerVars>>

\* ---------------------------------------------------------------- ceremony
\* class Roles, in declaration order: the order SETTINGS.roles iterates in
RoleOrder == <<"root", "targets", "snapshot", "timestamp", "bins">>
RoleNames == {RoleOrder[i] : i \in 1..Len(RoleOrder)}

default_settings ==
    [root      |-> [expiration |-> 365, threshold |-> 1, keys |-> 2, offline_keys |-> TRUE],
     targets   |-> [expiration |-> 365, threshold |-> 1, keys |-> 2, offline_keys |-> TRUE],
     snapshot  |-> [expiration |-> 1, threshold |-> 1, keys |-> 1, offline_keys |-> FALSE],
     timestamp |-> [expiration |-> 1, threshold |-> 1, keys |-> 1, offline_keys |-> FALSE],
     bins      |-> [expiration |-> 1, threshold |-> 1, keys |-> 1, offline_keys |-> FALSE]]

OFFLINE_KEYS == {"root", "targets"}

\* RolesKeysInput(): a role before it is configured.  `keys` is the dict of
\* the role's keys, held as the set of its entries, each carrying its name.
RolesKeysInput ==
    [expiration |-> 1, num_of_keys |-> 1, threshold |-> 1, keys |-> {},
     offline_keys |-> TRUE, number_hash_prefixes |-> None]

\* RolesKeysInput.to_dict(): the fields of the role, copied
to_dict(role) ==
    [expiration |-> role.expiration, num_of_keys |-> role.num_of_keys,
     threshold |-> role.threshold, keys |-> role.keys,
     offline_keys |-> role.offline_keys,
     number_hash_prefixes |-> role.number_hash_prefixes]

\* initialize_metadata(roles, save): the metadata of each role, naming the
\* keys the role was given
initialize_metadata(roles) ==
    [r \in RoleNames |-> {k.key.keyid : k \in roles[r].keys}]

CeremonyOptions ==
    [bootstrap : BOOLEAN, file : {<<>>, <<"payload", ".", "json">>},
     upload : BOOLEAN, save : BOOLEAN]

\* answers of the operator to the prompts of _configure_role
ExpirationChoices(rolename) == {default_settings[rolename].expiration}
NumKeysChoices == 1..MaxNumKeys
ThresholdChoices(rolename) == {default_settings[rolename].threshold}
HashBinsChoices == {8}
BaseUrlChoices == {<<"https:", "/", "example">>, <<"https:", "/", "example", "/">>}

\* the key files of the operator: file i is keys/<i>, holds key i and opens
\* with password i.  Every role has MaxNumKeys files of its own, and they
\* are interchangeable: for a role the operator offers the role's unused
\* file with the lowest number, any file already loaded, or (0) a path where
\* no key file is.
KeyFiles == 1..(Len(RoleOrder) * MaxNumKeys)
FilesOfRole(idx) == ((idx - 1) * MaxNumKeys + 1)..(idx * MaxNumKeys)
KeyPath(i) == <<"keys", "/", ToString(i)>>
KeyOf(i) == [keyid |-> ToString(i), private |-> ToString(i)]
PasswordOf(i) == <<"password", ToString(i)>>
WrongPassword == <<"wrong">>

LoadedKeys(roles) == UNION {{k.key : k \in roles[r].keys} : r \in RoleNames}
UnusedFiles(roles, idx) ==
    {i \in FilesOfRole(idx) : KeyOf(i) \notin LoadedKeys(roles)}
KeyFileChoices(roles, idx) ==
    {0} \cup {i \in KeyFiles : KeyOf(i) \in LoadedKeys(roles)}
        \cup {i \in UnusedFiles(roles, idx) :
                \A j \in UnusedFiles(roles, idx) : i <= j}

\* f"{rolename}_{key_count}"
KeyName(rolename, key_count) == <<rolename, "_", ToString(key_count)>>

\* line 581 without its check
UploadWithoutBootstrap_unchecked(upload, bootstrap) == FALSE

\* `upload is True and bootstrap is False`, line 581
UploadWithoutBootstrap(upload, bootstrap) == upload = TRUE /\ bootstrap = FALSE

\* line 376 with the loop ending one key early
KeysMissing_one_short(role) == Cardinality(role.keys) < role.num_of_keys - 1

\* `len(role.keys) < role.num_of_keys`, line 376
KeysMissing(role) == Cardinality(role.keys) < role.num_of_keys

\* line 709 with the keys of no role cleared
ClearsKeys_never(role) == FALSE

\* `data.offline_keys is True`, line 709
ClearsKeys(role) == role.offline_keys = TRUE

\* X is True or None
IsTrueOrNone(x) == x = TRUE

_key_is_duplicated(key, roles) ==
    \E r \in RoleNames : \E k \in roles[r].keys : key = k.key

\* the Key that _load_key returns: its key, or None with an error
_load_key(file, password) ==
    IF file = 0 THEN [key |-> None, error |-> "StorageError"]
    ELSE IF password # PasswordOf(file)
    THEN [key |-> None, error |-> "CryptoError"]
    ELSE [key |-> KeyOf(file), error |-> ""]

\* _configure_role, with the answers of the operator to its prompts
_configure_role(S, rolename, answers) ==
    LET role == [S.roles[rolename] EXCEPT
                    !.keys = {},
                    !.offline_keys = default_settings[rolename].offline_keys,
                    !.expiration = answers.expiration,
                    !.num_of_keys = answers.num_of_keys,
                    !.threshold = IF answers.num_of_keys > 1
                                  THEN answers.threshold ELSE 1,
                    !.number_hash_prefixes =
                        IF rolename = "targets"
                        THEN answers.number_hash_prefixes ELSE @]
        url == IF EndsWith(answers.targets_base_url, "/")
               THEN answers.targets_base_url
               ELSE answers.targets_base_url \o <<"/">>
    IN  [roles |-> [S.roles EXCEPT ![rolename] = role],
         service |-> IF rolename = "targets"
                     THEN [targets_base_url |-> url]
                     ELSE S.service]

\* the results of one run of _configure_role
ConfiguredRoles(S, rolename) ==
    {_configure_role(S, rolename, answers) :
        answers \in [expiration : ExpirationChoices(rolename),
                     num_of_keys : NumKeysChoices,
                     threshold : ThresholdChoices(rolename),
                     number_hash_prefixes : HashBinsChoices,
                     targets_base_url : BaseUrlChoices]}

\* where the handler goes after the checks of lines 575-601
AfterChecks ==
    IF opts.upload = FALSE THEN "intro"
    ELSE IF opts.bootstrap = TRUE /\ opts.upload = TRUE THEN "upload_read"
    ELSE "finish"

Request(method, url) == [method |-> method, url |-> url, payload |-> NoPayload]

\* ceremony, lines 575-582
CeremonyStart ==
    /\ command = "ceremony" /\ pc = "start"
    /\ \E makedirs_ok \in BOOLEAN :
          /\ ~opts.save => makedirs_ok
          /\ fileOps' = IF opts.save
                        THEN Append(fileOps, [op |-> "makedirs",
                                              file |-> <<"metadata">>,
                                              content |-> makedirs_ok])
                        ELSE fileOps
          /\ IF ~makedirs_ok
             THEN ClickException("OSError")
             ELSE IF UploadWithoutBootstrap(opts.upload, opts.bootstrap)
             THEN ClickException("Requires '-b/--bootstrap' option.")
             ELSE Goto(IF opts.bootstrap THEN "check_server" ELSE AfterChecks)
    /\ UNCHANGED <<command, opts, settings, requests, prompted, output>>
    /\ UNCHANGED <<addVars, newVars, restVars, cerVars>>

\* _check_server, lines 413-441
CheckServer ==
    /\ command = "ceremony" /\ pc = "check_server"
    /\ IF ~(Truthy(settings.SERVER) /\ Truthy(settings.TOKEN))
       THEN /\ ClickException("Login first. Run 'rstuf-cli admin login'")
            /\ UNCHANGED <<requests, cer>>
       ELSE \E logged \in {"ok", "denied", "expired"},
               status \in {200, 500}, bootstrap \in BOOLEAN :
              LET token_check == Append(requests, Request("get", "api/v1/token"))
              IN  IF logged = "denied"
                  THEN /\ ClickException("Try re-login")
                       /\ requests' = token_check /\ cer' = cer
                  ELSE IF logged = "expired"
                  THEN /\ ClickException("Token expired.")
                       /\ requests' = token_check /\ cer' = cer
                  ELSE /\ requests' = Append(token_check,
                                             Request("get", "api/v1/bootstrap"))
                       /\ IF status # 200 /\ IsTrueOrNone(bootstrap)
                          THEN ClickException("detail") /\ cer' = cer
                          ELSE /\ Goto("bootstrap_status")
                               /\ cer' = [cer EXCEPT !.headers = settings.TOKEN]
    /\ UNCHANGED <<command, opts, settings, prompted, output, fileOps>>
    /\ UNCHANGED <<addVars, newVars, restVars, SETTINGS, progress, initCalls>>

\* ceremony, lines 587-601
BootstrapStatus ==
    /\ command = "ceremony" /\ pc = "bootstrap_status"
    /\ requests' = Append(requests, Request("get", "api/v1/bootstrap"))
    /\ \E status \in {200, 404, 500}, bootstrap \in BOOLEAN :
          IF status = 404 THEN ClickException("Server doesn't allow bootstrap")
          ELSE IF status # 200 THEN ClickException("Error")
          ELSE IF IsTrueOrNone(bootstrap) THEN ClickException("message")
          ELSE Goto(AfterChecks)
    /\ UNCHANGED <<command, opts, settings, prompted, output, fileOps>>
    /\ UNCHANGED <<addVars, newVars, restVars, cerVars>>

\* ceremony, lines 603-623
Intro ==
    /\ command = "ceremony" /\ pc = "intro"
    /\ prompted' = TRUE
    /\ \E ceramony_detailed \in BOOLEAN, start_ceremony \in BOOLEAN :
          IF start_ceremony = FALSE
          THEN ClickException("Ceremony aborted.")
          ELSE Goto("configure")
    /\ UNCHANGED <<command, opts, settings, requests, output, fileOps>>
    /\ UNCHANGED <<addVars, newVars, restVars, cerVars>>

\* ceremony, lines 624-625: _configure_role for the next role
ConfigureRole ==
    /\ command = "ceremony" /\ pc = "configure"
    /\ LET rolename == RoleOrder[cer.idx]
       IN  /\ SETTINGS' \in ConfiguredRoles(SETTINGS, rolename)
           /\ progress' = [progress EXCEPT !.configured = @ \cup {rolename}]
    /\ IF cer.idx < Len(RoleOrder)
       THEN Goto("configure") /\ cer' = [cer EXCEPT !.idx = @ + 1]
       ELSE Goto("ready") /\ cer' = [cer EXCEPT !.idx = 1]
    /\ UNCHANGED <<sharedVars, addVars, newVars, restVars, initCalls>>

\* ceremony, lines 627-633
Ready ==
    /\ command = "ceremony" /\ pc = "ready"
    /\ \E start_ceremony \in BOOLEAN :
          IF start_ceremony = FALSE
          THEN ClickException("Ceremony aborted.") /\ cer' = cer
          ELSE /\ Goto("configure_keys")
               /\ cer' = [cer EXCEPT !.idx = 1, !.key_count = 1,
                                     !.reconfigure = FALSE]
    /\ UNCHANGED <<sharedVars, addVars, newVars, restVars>>
    /\ UNCHANGED <<SETTINGS, progress, initCalls>>

\* _configure_keys, lines 376-410: one pass of the loop
LoadKey ==
    /\ command = "ceremony" /\ pc = "configure_keys"
    /\ LET rolename == RoleOrder[cer.idx]
           role == SETTINGS.roles[rolename]
       IN  /\ KeysMissing(role)
           /\ \E file \in KeyFileChoices(SETTINGS.roles, cer.idx),
                 password_ok \in BOOLEAN, try_again \in BOOLEAN :
                 LET filepath == IF file = 0 THEN <<"keys", "/", "none">>
                                 ELSE KeyPath(file)
                     password == IF password_ok /\ file # 0
                                 THEN PasswordOf(file) ELSE WrongPassword
                     key == _load_key(file, password)
                 IN  IF key.error # ""
                     THEN /\ IF try_again
                             THEN Goto("configure_keys")
                             ELSE ClickException("Required key not validated.")
                          /\ UNCHANGED <<SETTINGS, cer>>
                     ELSE IF _key_is_duplicated(key.key, SETTINGS.roles)
                     THEN Goto("configure_keys") /\ UNCHANGED <<SETTINGS, cer>>
                     ELSE /\ SETTINGS' = [SETTINGS EXCEPT !.roles[rolename].keys =
                              {k \in @ : k.name # KeyName(rolename, cer.key_count)}
                              \cup {[name |-> KeyName(rolename, cer.key_count),
                                     filename |-> SplitLast(filepath, "/"),
                                     password |-> password,
                                     key |-> key.key]}]
                          /\ cer' = [cer EXCEPT !.key_count = @ + 1]
                          /\ Goto("configure_keys")
    /\ UNCHANGED <<sharedVars, addVars, newVars, restVars, progress, initCalls>>

\* _configure_keys returns: lines 635-636 go on to the next role, line 699
\* goes back to the summary of the role
KeysLoaded ==
    /\ command = "ceremony" /\ pc = "configure_keys"
    /\ ~KeysMissing(SETTINGS.roles[RoleOrder[cer.idx]])
    /\ IF cer.reconfigure
       THEN /\ Goto("confirm")
            /\ cer' = [cer EXCEPT !.reconfigure = FALSE]
            /\ progress' = progress
       ELSE /\ progress' = [progress EXCEPT !.keys_loaded =
                                @ \cup {RoleOrder[cer.idx]}]
            /\ IF cer.idx < Len(RoleOrder)
               THEN /\ Goto("configure_keys")
                    /\ cer' = [cer EXCEPT !.idx = @ + 1, !.key_count = 1]
               ELSE /\ Goto("confirm")
                    /\ cer' = [cer EXCEPT !.idx = 1]
    /\ UNCHANGED <<sharedVars, addVars, newVars, restVars, SETTINGS, initCalls>>

\* ceremony, lines 640-701: the summary of one role and the operator's answer
Confirm ==
    /\ command = "ceremony" /\ pc = "confirm"
    /\ LET rolename == RoleOrder[cer.idx]
       IN  \E confirm_config \in BOOLEAN :
              IF ~confirm_config
              THEN /\ SETTINGS' \in ConfiguredRoles(SETTINGS, rolename)
                   /\ cer' = [cer EXCEPT !.key_count = 1, !.reconfigure = TRUE]
                   /\ progress' = progress
                   /\ Goto("configure_keys")
              ELSE /\ SETTINGS' = SETTINGS
                   /\ progress' = [progress EXCEPT !.confirmed = @ \cup {rolename}]
                   /\ IF cer.idx < Len(RoleOrder)
                      THEN Goto("confirm") /\ cer' = [cer EXCEPT !.idx = @ + 1]
                      ELSE Goto("init_metadata") /\ cer' = cer
    /\ UNCHANGED <<sharedVars, addVars, newVars, restVars, initCalls>>

\* ceremony, line 703
InitializeMetadata ==
    /\ command = "ceremony" /\ pc = "init_metadata"
    /\ initCalls' = Append(initCalls, [roles |-> SETTINGS.roles,
                                       save |-> opts.save])
    /\ cer' = [cer EXCEPT !.metadata = initialize_metadata(SETTINGS.roles)]
    /\ Goto("build_payload")
    /\ UNCHANGED <<sharedVars, addVars, newVars, restVars, SETTINGS, progress>>

\* ceremony, lines 708-710: the roles after the loop cleared the offline keys
ClearOfflineKeys(roles) ==
    [r \in RoleNames |->
        IF ClearsKeys(roles[r]) THEN [roles[r] EXCEPT !.keys = {}] ELSE roles[r]]

\* ceremony, lines 705-723
BuildPayload ==
    /\ command = "ceremony" /\ pc = "build_payload"
    /\ LET cleared == ClearOfflineKeys(SETTINGS.roles)
       IN  /\ SETTINGS' = [SETTINGS EXCEPT !.roles = cleared]
           /\ cer' = [cer EXCEPT !.json_payload =
                  [settings |-> [service |-> SETTINGS.service,
                                 roles |-> [r \in RoleNames |-> to_dict(cleared[r])]],
                   metadata |-> cer.metadata]]
    /\ Goto("write_file")
    /\ UNCHANGED <<sharedVars, addVars, newVars, restVars, progress, initCalls>>

\* ceremony, lines 725-727
WriteFile ==
    /\ command = "ceremony" /\ pc = "write_file"
    /\ IF Truthy(opts.file)
       THEN \E opened \in BOOLEAN :
               IF opened
               THEN /\ fileOps' = Append(fileOps, [op |-> "write",
                                                   file |-> opts.file,
                                                   content |-> cer.json_payload])
                    /\ Goto("bootstrap")
               ELSE Crash("OSError") /\ fileOps' = fileOps
       ELSE Goto("bootstrap") /\ fileOps' = fileOps
    /\ UNCHANGED <<command, opts, settings, requests, prompted, output>>
    /\ UNCHANGED <<addVars, newVars, restVars, cerVars>>

\* the answers of the server to the bootstrap POST
BootstrapResponses ==
    [status : {202, 500}, accepted : BOOLEAN, task_id : {None, <<"task-1">>}]

\* _bootstrap, lines 444-470: the exception it raises, or "" when it returns
BootstrapError(response) ==
    IF response.status # 202 THEN "Error"
    ELSE IF ~response.accepted THEN "response.text"
    ELSE ""

BootstrapPost(json_payload) ==
    [method |-> "post", url |-> "api/v1/bootstrap", payload |-> json_payload]

\* ceremony, lines 729-730
Bootstrap ==
    /\ command = "ceremony" /\ pc = "bootstrap"
    /\ IF opts.bootstrap = TRUE
       THEN /\ requests' = Append(requests, BootstrapPost(cer.json_payload))
            /\ \E response \in BootstrapResponses :
                  IF BootstrapError(response) # ""
                  THEN ClickException(BootstrapError(response))
                  ELSE Goto("finish")
       ELSE Goto("finish") /\ requests' = requests
    /\ UNCHANGED <<command, opts, settings, prompted, output, fileOps>>
    /\ UNCHANGED <<addVars, newVars, restVars, cerVars>>

\* what json.load makes of an existing payload file
StoredPayload == [settings |-> "stored", metadata |-> "stored"]

\* ceremony, lines 732-737
UploadRead ==
    /\ command = "ceremony" /\ pc = "upload_read"
    /\ \E result \in {"loaded", "OSError", "JSONDecodeError"} :
          IF result = "OSError"
          THEN ClickException("Invalid file") /\ UNCHANGED <<fileOps, cer>>
          ELSE /\ fileOps' = Append(fileOps, [op |-> "read", file |-> opts.file,
                                              content |-> StoredPayload])
               /\ IF result = "JSONDecodeError"
                  THEN Crash("JSONDecodeError") /\ cer' = cer
                  ELSE /\ Goto("upload_bootstrap")
                       /\ cer' = [cer EXCEPT !.json_payload = StoredPayload]
    /\ UNCHANGED <<command, opts, settings, requests, prompted, output>>
    /\ UNCHANGED <<addVars, newVars, restVars, SETTINGS, progress, initCalls>>

\* ceremony, lines 739-743
UploadBootstrap ==
    /\ command = "ceremony" /\ pc = "upload_bootstrap"
    /\ requests' = Append(requests, BootstrapPost(cer.json_payload))
    /\ \E response \in BootstrapResponses :
          IF BootstrapError(response) # ""
          THEN /\ ClickException(BootstrapError(response))
               /\ UNCHANGED <<cer, taskServer>>
          ELSE IF response.task_id = None
          THEN /\ ClickException("task id wasn't received")
               /\ UNCHANGED <<cer, taskServer>>
          ELSE /\ Goto("bootstrap_state")
               /\ cer' = [cer EXCEPT !.task_id = response.task_id]
               /\ taskServer' \in ServerScripts
    /\ output' = output \cup {"Starting online bootstrap"}
    /\ UNCHANGED <<command, opts, settings, prompted, fileOps>>
    /\ UNCHANGED <<addVars, newVars, dlVars, parseVars>>
    /\ UNCHANGED <<SETTINGS, progress, initCalls>>

\* the answers of the server to a task-status request
TaskResponses ==
    {"500", "not json", "no data", "no state", "PENDING", "STARTED",
     "FAILURE", "SUCCESS", "SUCCESS without result"}
TaskStates == {"PENDING", "STARTED", "FAILURE", "SUCCESS"}
StateOf(response) ==
    IF response = "SUCCESS without result" THEN "SUCCESS" ELSE response

\* the answers with status 200 and a state that is neither SUCCESS nor FAILURE
OtherStates == {"PENDING", "STARTED"}

\* what one pass of the loop does with an answer: the exception it raises,
\* "break", or "sleep" when the loop goes on
LoopStep_passing_failure(response) ==
    CASE response = "500" -> "Unexpected response"
      [] response = "not json" -> "JSONDecodeError"
      [] response = "no data" -> "No data received"
      [] response = "no state" -> "No state in data received"
      [] response = "SUCCESS without result" -> "Something went wrong"
      [] response = "SUCCESS" -> "break"
      [] OTHER -> "sleep"
LoopStep(response) ==
    CASE response = "500" -> "Unexpected response"
      [] response = "not json" -> "JSONDecodeError"
      [] response = "no data" -> "No data received"
      [] response = "no state" -> "No state in data received"
      [] response = "FAILURE" -> "Failed"
      [] response = "SUCCESS without result" -> "Something went wrong"
      [] response = "SUCCESS" -> "break"
      [] OTHER -> "sleep"

\* what the server answers next, by the answers it still holds back
AnswersOf(script) ==
    IF script.pending = 0 THEN TaskResponses \ OtherStates ELSE OtherStates
Advance(script) ==
    IF script.pending > 0 THEN [script EXCEPT !.pending = @ - 1] ELSE script

\* _bootstrap_state, lines 473-520: one pass of the loop up to the sleep.
\* The log of requests and the counter keep the first MaxPolls + 1 polls.
BootstrapState ==
    /\ command = "ceremony" /\ pc = "bootstrap_state"
    /\ requests' = IF cer.polls <= MaxPolls
                   THEN Append(requests, Request("get", "api/v1/task"))
                   ELSE requests
    /\ \E response \in AnswersOf(taskServer) :
          /\ cer' = [cer EXCEPT
                        !.polls = IF @ <= MaxPolls THEN @ + 1 ELSE @,
                        !.received_state =
                            IF StateOf(response) \in TaskStates
                               /\ ~Contains(@, StateOf(response))
                            THEN Append(@, StateOf(response)) ELSE @]
          /\ output' = IF response = "SUCCESS"
                       THEN output \cup {"Bootstrap finished."} ELSE output
          /\ CASE LoopStep(response) = "break" -> Goto("finish")
               [] LoopStep(response) = "sleep" -> Goto("bootstrap_sleep")
               [] LoopStep(response) = "JSONDecodeError" ->
                      Crash("JSONDecodeError")
               [] OTHER -> ClickException(LoopStep(response))
    /\ taskServer' = Advance(taskServer)
    /\ UNCHANGED <<command, opts, settings, prompted, fileOps>>
    /\ UNCHANGED <<addVars, newVars, dlVars, parseVars>>
    /\ UNCHANGED <<SETTINGS, progress, initCalls>>

\* _bootstrap_state, line 522: time.sleep(2), then the next pass
BootstrapSleep ==
    /\ command = "ceremony" /\ pc = "bootstrap_sleep"
    /\ Goto("bootstrap_state")
    /\ UNCHANGED <<sharedVars, addVars, newVars, cerVars, restVars>>

\* ceremony, line 747
CeremonyDone ==
    /\ command = "ceremony" /\ pc = "finish"
    /\ output' = output \cup {"Ceremony done."}
    /\ Goto("done")
    /\ UNCHANGED <<command, opts, settings, requests, prompted, fileOps>>
    /\ UNCHANGED <<addVars, newVars, restVars, cerVars>>

\* -------------------------------------------------------- artifact download
METADATA_URL == <<"http", ":", "/", "/", "localhost", ":", "8080">>
ARTIFACT_URL == <<"http", ":", "/", "/", "localhost", ":", "8081">>
ArtifactNames == {<<"file.txt">>, <<"non-existing">>}

DownloadOptions ==
    [artifact_name : ArtifactNames, metadata_url : {None, METADATA_URL},
     artifacts_url : {None, ARTIFACT_URL},
     root : {None, <<"root", ".", "json">>}, hash_prefix : BOOLEAN,
     directory_prefix : {None, <<"dir">>}]

\* a trusted root as the configuration file holds it, base64 encoded
EncodedRoot == <<"c29tZV9yb290">>
_decode_trusted_root(root) ==
    IF root = EncodedRoot THEN <<"some_root">> ELSE <<"undecodable">>

Repository(name, trusted_root) ==
    [name |-> name, artifact_base_url |-> ARTIFACT_URL, hash_prefix |-> FALSE,
     metadata_url |-> METADATA_URL, trusted_root |-> trusted_root]

RepositoriesChoices ==
    {{}, {Repository(<<"r1">>, EncodedRoot)}, {Repository(<<"r1">>, None)},
     {Repository(<<"r1">>, EncodedRoot), Repository(<<"r2">>, None)}}

\* the settings of a download: REPOSITORIES may be absent from the file
DownloadSettings ==
    {s \in [SERVER : {None}, TOKEN : {None}, has_repositories : BOOLEAN,
            REPOSITORIES : RepositoriesChoices,
            CURRENT_REPOSITORY : {None, <<"r1">>, <<"r2">>}] :
        ~s.has_repositories => s.REPOSITORIES = {}}

NoDownload ==
    [metadata_url |-> None, artifacts_url |-> None, hash_prefix |-> FALSE,
     directory_prefix |-> None, root |-> None, metadata_dir |-> None,
     root_exists |-> FALSE, root_fetches |-> <<>>, root_copies |-> <<>>,
     tuf_calls |-> <<>>, outcome |-> ""]

\* whether the parameters come from the configuration file
UsesConfig ==
    /\ opts.metadata_url = None /\ opts.artifacts_url = None
    /\ opts.root = None
    /\ settings.has_repositories

CurrentRepository ==
    {r \in settings.REPOSITORIES : r.name = settings.CURRENT_REPOSITORY}

\* the message the configuration is rejected with, "" when it is complete
ConfigError_whatever_the_root ==
    IF settings.CURRENT_REPOSITORY = None
    THEN "Please specify current repository"
    ELSE IF settings.REPOSITORIES = {}
    THEN "No reposotiroes listed in the config file"
    ELSE IF CurrentRepository = {}
    THEN "Repository " \o settings.CURRENT_REPOSITORY[1]
             \o " is missing in the configuration file"
    ELSE ""
ConfigError ==
    IF settings.CURRENT_REPOSITORY = None
    THEN "Please specify current repository"
    ELSE IF settings.REPOSITORIES = {}
    THEN "No reposotiroes listed in the config file"
    ELSE IF CurrentRepository = {}
    THEN "Repository " \o settings.CURRENT_REPOSITORY[1]
             \o " is missing in the configuration file"
    ELSE IF \E r \in CurrentRepository : r.trusted_root = None
    THEN "Trusted root is not cofigured."
    ELSE ""

\* the message the options are rejected with, "" when they are complete
UrlError_artifacts_first ==
    IF opts.artifacts_url = None THEN "Please specify artifacts url"
    ELSE IF opts.metadata_url = None THEN "Please specify metadata url"
    ELSE ""
UrlError ==
    IF opts.metadata_url = None THEN "Please specify metadata url"
    ELSE IF opts.artifacts_url = None THEN "Please specify artifacts url"
    ELSE ""

\* download: the parameters are taken and checked
DownloadStart ==
    /\ command = "download" /\ pc = "start"
    /\ IF UsesConfig
       THEN IF ConfigError # ""
            THEN ClickException(ConfigError) /\ dl' = dl
            ELSE /\ \E r \in CurrentRepository :
                       dl' = [dl EXCEPT
                                 !.metadata_url = r.metadata_url,
                                 !.artifacts_url = r.artifact_base_url,
                                 !.hash_prefix = r.hash_prefix,
                                 !.directory_prefix = opts.directory_prefix,
                                 !.root = _decode_trusted_root(r.trusted_root)]
                 /\ Goto("download_artifact")
       ELSE IF UrlError # ""
            THEN ClickException(UrlError) /\ dl' = dl
            ELSE /\ dl' = [dl EXCEPT
                              !.metadata_url = opts.metadata_url,
                              !.artifacts_url = opts.artifacts_url,
                              !.hash_prefix = opts.hash_prefix,
                              !.directory_prefix = opts.directory_prefix,
                              !.root = opts.root]
                 /\ Goto("download_artifact")
    /\ UNCHANGED <<sharedVars, addVars, newVars, cerVars, parseVars, pollVars>>

\* the directory that holds the trusted metadata of a repository
Sha256Prefix(url) == <<"sha256[:8](">> \o url \o <<")">>
_build_metadata_dir(metadata_url) ==
    <<"~", "/", ".local", "/", "share", "/", "rstuf", "/">>
        \o Sha256Prefix(metadata_url)

RootJson(metadata_dir) == metadata_dir \o <<"/", "root", ".", "json">>

\* whether the root of trust is taken from the repository itself
NeedsTofu_whatever_the_root(root, isfile) == ~isfile
NeedsTofu(root, isfile) == root = None /\ ~isfile

FirstRoot == <<"/", "1", ".", "root", ".", "json">>

\* _init_tofu: the first root is fetched from the metadata URL
_init_tofu(d) ==
    [d EXCEPT !.root_fetches =
        Append(@, [url |-> d.metadata_url \o FirstRoot,
                   file |-> RootJson(_build_metadata_dir(d.metadata_url))])]

\* _init_trusted_root: the root the operator trusts is put in place
_init_trusted_root(d) ==
    [d EXCEPT !.root_copies =
        Append(@, [root |-> d.root,
                   file |-> RootJson(_build_metadata_dir(d.metadata_url))])]

\* _download_artifact up to the call of the TUF client
DownloadArtifact ==
    /\ command = "download" /\ pc = "download_artifact"
    /\ \E isfile \in BOOLEAN :
          LET d == [dl EXCEPT
                       !.metadata_dir = _build_metadata_dir(dl.metadata_url),
                       !.root_exists = isfile]
          IN  IF NeedsTofu(dl.root, isfile)
              THEN /\ dl' = _init_tofu(d)
                   /\ output' = output \cup
                          {"Trust-on-First-Use: Initialized new root",
                           "Using trusted root in"}
              ELSE /\ dl' = IF isfile THEN d ELSE _init_trusted_root(d)
                   /\ output' = output \cup {"Using trusted root in"}
    /\ Goto("download_tuf")
    /\ UNCHANGED <<command, opts, settings, requests, prompted, fileOps>>
    /\ UNCHANGED <<addVars, newVars, cerVars, parseVars, pollVars>>

download_dir(directory_prefix) ==
    IF directory_prefix = None
    THEN <<"cwd", "/", "downloads">> ELSE directory_prefix

\* the arguments _perform_tuf_ngclient_download_artifact is called with
TufCall(d) ==
    [metadata_url |-> d.metadata_url, metadata_dir |-> d.metadata_dir,
     artifacts_url |-> d.artifacts_url, artifact_name |-> opts.artifact_name,
     download_dir |-> download_dir(d.directory_prefix),
     prefix_targets_with_hash |-> d.hash_prefix]

\* what the TUF client can do with the request
TufOutcomes == {"refresh error", "download error", "downloaded"}
DownloadFailed_while_downloading(outcome) == outcome = "download error"
DownloadFailed(outcome) == outcome \in {"refresh error", "download error"}

\* _perform_tuf_ngclient_download_artifact
DownloadPerform ==
    /\ command = "download" /\ pc = "download_tuf"
    /\ \E outcome \in TufOutcomes :
          /\ dl' = [dl EXCEPT !.tuf_calls = Append(@, TufCall(dl)),
                              !.outcome = outcome]
          /\ IF DownloadFailed(outcome)
             THEN ClickException("Failed to download artifact "
                                     \o opts.artifact_name[1])
             ELSE Goto("download_done")
    /\ UNCHANGED <<sharedVars, addVars, newVars, cerVars, parseVars, pollVars>>

\* download: the last line of the command
DownloadDone ==
    /\ command = "download" /\ pc = "download_done"
    /\ output' = output \cup {"Successfully completed artifact download"}
    /\ Goto("done")
    /\ UNCHANGED <<command, opts, settings, requests, prompted, fileOps>>
    /\ UNCHANGED <<addVars, newVars, cerVars, dlVars, parseVars, pollVars>>

\* ------------------------------------------------------------ specification
Init ==
    /\ command \in Commands
    /\ opts \in CASE command = "add" -> AddOptions
                  [] command = "new" -> NewOptions
                  [] command = "ceremony" -> CeremonyOptions
                  [] command = "download" -> DownloadOptions
    /\ settings \in IF command = "download"
                    THEN DownloadSettings
                    ELSE [SERVER : ConfiguredServers,
                          TOKEN : IF command = "ceremony"
                                  THEN {None, <<"token">>} ELSE {None}]
    /\ pc = "start"
    /\ error = ""
    /\ requests = <<>>
    /\ prompted = FALSE
    /\ output = {}
    /\ fileOps = <<>>
    /\ payload = NoPayload
    /\ hashed = {}
    /\ fetches = <<>>
    /\ oci = NoOci
    /\ delegations = Unbound
    /\ SETTINGS = [roles |-> [r \in RoleNames |-> RolesKeysInput],
                   service |-> [targets_base_url |-> <<>>]]
    /\ cer = [idx |-> 1, key_count |-> 1, reconfigure |-> FALSE,
              headers |-> None, metadata |-> None, json_payload |-> NoPayload,
              task_id |-> None, received_state |-> <<>>, polls |-> 0]
    /\ progress = [configured |-> {}, keys_loaded |-> {}, confirmed |-> {}]
    /\ initCalls = <<>>
    /\ taskServer = NoServer
    /\ dl = NoDownload
    /\ parsed = NotParsed

Next ==
    \/ AddStart
    \/ AddLocalFile
    \/ AddContainerOci
    \/ AddOciManifest
    \/ AddSend
    \/ NewStart
    \/ NewSave
    \/ NewConfigure
    \/ NewSend
    \/ CeremonyStart
    \/ CheckServer
    \/ BootstrapStatus
    \/ Intro
    \/ ConfigureRole
    \/ Ready
    \/ LoadKey
    \/ KeysLoaded
    \/ Confirm
    \/ InitializeMetadata
    \/ BuildPayload
    \/ WriteFile
    \/ Bootstrap
    \/ UploadRead
    \/ UploadBootstrap
    \/ BootstrapState
    \/ BootstrapSleep
    \/ CeremonyDone
    \/ DownloadStart
    \/ DownloadArtifact
    \/ DownloadPerform
    \/ DownloadDone

Spec == Init /\ [][Next]_vars

\* the upload of a stored payload alone: the command runs step after step
UploadInit == Init /\ command = "ceremony" /\ opts.upload = TRUE
UploadNext ==
    \/ CeremonyStart
    \/ CheckServer
    \/ BootstrapStatus
    \/ UploadRead
    \/ UploadBootstrap
    \/ BootstrapState
    \/ BootstrapSleep
    \/ CeremonyDone
UploadSpec == UploadInit /\ [][UploadNext]_vars /\ WF_vars(UploadNext)

\* container references by their parts: a registry host or none, the
\* components of the image path, a tag or none
RegistryHosts == {None, <<"ghcr", ".", "io">>, DockerHub}
ImageWords == {<<"postgres">>, <<"in-toto">>, <<"registry">>}
ImagePaths == SeqsUpTo(ImageWords, MaxComponents) \ {<<>>}
Tags == {None, <<"17">>, <<"0", ".", "9", ".", "0">>}
References == [host : RegistryHosts, image_path : ImagePaths, tag : Tags]

\* the reference as the operator writes it
Written(ref) ==
    (IF ref.host = None THEN <<>> ELSE ref.host \o <<"/">>)
        \o Join(ref.image_path, "/")
        \o (IF ref.tag = None THEN <<>> ELSE <<":">> \o ref.tag)

\* _parse_container_url alone, applied to the references
ParseInit ==
    /\ command = "add"
    /\ \E ref \in References :
          /\ opts = [artifact |-> Written(ref), oci_image |-> TRUE,
                     path |-> None, api_server |-> None]
          /\ parsed = [reference |-> ref, result |-> None]
    /\ settings = [SERVER |-> None, TOKEN |-> None]
    /\ pc = "parse"
    /\ error = ""
    /\ requests = <<>>
    /\ prompted = FALSE
    /\ output = {}
    /\ fileOps = <<>>
    /\ payload = NoPayload
    /\ hashed = {}
    /\ fetches = <<>>
    /\ oci = NoOci
    /\ delegations = Unbound
    /\ SETTINGS = [roles |-> [r \in RoleNames |-> RolesKeysInput],
                   service |-> [targets_base_url |-> <<>>]]
    /\ cer = [idx |-> 1, key_count |-> 1, reconfigure |-> FALSE,
              headers |-> None, metadata |-> None, json_payload |-> NoPayload,
              task_id |-> None, received_state |-> <<>>, polls |-> 0]
    /\ progress = [configured |-> {}, keys_loaded |-> {}, confirmed |-> {}]
    /\ initCalls = <<>>
    /\ taskServer = NoServer
    /\ dl = NoDownload

ParseContainerUrl ==
    /\ pc = "parse"
    /\ parsed' = [parsed EXCEPT !.result = _parse_container_url(opts.artifact)]
    /\ IF _parse_container_url(opts.artifact) = IndexError
       THEN Crash("IndexError") ELSE Goto("parsed")
    /\ UNCHANGED <<sharedVars, addVars, newVars, cerVars, dlVars, pollVars>>

ParseSpec == ParseInit /\ [][ParseContainerUrl]_vars

\* artifact download alone: a command runs to its end, step after step
DownloadInit == Init /\ command = "download"
DownloadNext ==
    \/ DownloadStart
    \/ DownloadArtifact
    \/ DownloadPerform
    \/ DownloadDone
DownloadSpec ==
    DownloadInit /\ [][DownloadNext]_vars /\ WF_vars(DownloadNext)

\* ------------------------------------------------------------------ claims
InitialSETTINGS ==
    [roles |-> [r \in RoleNames |-> RolesKeysInput],
     service |-> [targets_base_url |-> <<>>]]

\* the reads and writes of files, as opposed to the creation of a directory
FileAccesses == {i \in DOMAIN fileOps : fileOps[i].op \in {"read", "write"}}
Writes == {i \in DOMAIN fileOps : fileOps[i].op = "write"}
Posts == {i \in DOMAIN requests : requests[i].method = "post"}

UploadOnly == command = "ceremony" /\ opts.upload /\ ~opts.bootstrap

NothingTouched ==
    /\ requests = <<>>
    /\ ~prompted
    /\ SETTINGS = InitialSETTINGS
    /\ FileAccesses = {}

\* C1, as stated: every ceremony run with --upload and without --bootstrap
\* fails with "Requires '-b/--bootstrap' option.", having sent no request,
\* shown no prompt, changed no role of SETTINGS and touched no payload file.
C1_AlwaysRequiresBootstrapError ==
    UploadOnly =>
        /\ NothingTouched
        /\ pc # "start" =>
              pc = "failed" /\ error = "Requires '-b/--bootstrap' option."

\* C1, amended: every ceremony run with --upload and without --bootstrap
\* fails, having sent no request, shown no prompt, changed no role of
\* SETTINGS and touched no payload file; the error is "Requires
\* '-b/--bootstrap' option." unless --save is set and the metadata directory
\* cannot be created, when it is the OSError of that attempt.
C1_UploadWithoutBootstrapFails ==
    UploadOnly =>
        /\ NothingTouched
        /\ pc # "start" =>
              /\ pc = "failed"
              /\ \/ error = "Requires '-b/--bootstrap' option."
                 \/ opts.save /\ error = "OSError"
              /\ ~opts.save => fileOps = <<>>

C1_Witness ==
    /\ UploadOnly
    /\ pc = "failed"
    /\ error = "Requires '-b/--bootstrap' option."

Interactive == command = "ceremony" /\ ~opts.upload

PayloadsOut ==
    {fileOps[i].content : i \in Writes} \cup {requests[i].payload : i \in Posts}

\* C2: in an interactive ceremony every payload written to the payload file
\* or sent with the bootstrap POST marks root and targets as offline, holds
\* an empty keys map for every role marked offline and holds under no role a
\* private key that initialize_metadata got for an offline role;
\* initialize_metadata was called before the payload was built, with all the
\* keys of the offline roles still in place.
C2_OfflineKeysLeftOut ==
    Interactive =>
        /\ \A p \in PayloadsOut : \A r \in RoleNames :
              /\ r \in OFFLINE_KEYS => p.settings.roles[r].offline_keys
              /\ p.settings.roles[r].offline_keys =>
                    /\ p.settings.roles[r].keys = {}
                    /\ \A k \in initCalls[1].roles[r].keys :
                          \A other \in RoleNames :
                             \A sent \in p.settings.roles[other].keys :
                                sent.key # k.key
        /\ (cer.json_payload # NoPayload \/ pc = "build_payload") =>
              /\ Len(initCalls) = 1
              /\ \A r \in OFFLINE_KEYS :
                    /\ initCalls[1].roles[r].keys # {}
                    /\ Cardinality(initCalls[1].roles[r].keys) =
                          initCalls[1].roles[r].num_of_keys
        /\ pc = "init_metadata" =>
              \A r \in OFFLINE_KEYS : SETTINGS.roles[r].keys # {}

C2_Witness ==
    /\ Interactive
    /\ pc = "done"
    /\ Writes # {} /\ Posts # {}
    /\ \A p \in PayloadsOut : \A r \in OFFLINE_KEYS :
          p.settings.roles[r].keys = {}
    /\ \E r \in OFFLINE_KEYS : Cardinality(initCalls[1].roles[r].keys) = 2

\* C3: an interactive ceremony configures all five roles before it loads a
\* key, loads the keys of all five roles before a role is confirmed, has
\* every role confirmed before it calls initialize_metadata, calls it at most
\* once and with no role holding fewer keys than its num_of_keys, writes the
\* payload file only after that call and sends the bootstrap POST only after
\* the file was written (when a file name is set) and only with --bootstrap;
\* a run that completes has done every one of these steps.
C3_CeremonyOrder ==
    Interactive =>
        /\ (progress.keys_loaded # {} \/ \E r \in RoleNames :
                                            SETTINGS.roles[r].keys # {})
              => progress.configured = RoleNames
        /\ progress.confirmed # {} => progress.keys_loaded = RoleNames
        /\ Len(initCalls) <= 1
        /\ initCalls # <<>> =>
              /\ progress.confirmed = RoleNames
              /\ \A r \in RoleNames :
                    /\ Cardinality(initCalls[1].roles[r].keys) >=
                          initCalls[1].roles[r].num_of_keys
                    /\ SETTINGS.roles[r].num_of_keys =
                          initCalls[1].roles[r].num_of_keys
        /\ Writes # {} => Len(initCalls) = 1 /\ Cardinality(Writes) = 1
        /\ Posts # {} =>
              /\ Len(initCalls) = 1
              /\ opts.bootstrap
              /\ Cardinality(Posts) = 1
              /\ Truthy(opts.file) => Writes # {}
        /\ pc \in {"finish", "done"} =>
              /\ Len(initCalls) = 1
              /\ Truthy(opts.file) <=> Writes # {}
              /\ opts.bootstrap <=> Posts # {}

C3_Witness ==
    /\ Interactive
    /\ pc = "done"
    /\ Len(initCalls) = 1
    /\ Writes # {} /\ Posts # {}
    /\ progress.confirmed = RoleNames

\* C4: `artifact add` without --api-server and without SERVER in the
\* settings fails with "Requires '--api-server'", having hashed no file,
\* contacted no registry and sent nothing.
C4_AddRequiresServer ==
    (command = "add" /\ opts.api_server = None /\ settings.SERVER = None) =>
        /\ hashed = {} /\ fetches = <<>> /\ requests = <<>> /\ fileOps = <<>>
        /\ payload = NoPayload
        /\ pc # "start" => pc = "failed" /\ error = "Requires '--api-server'"

C4_Witness ==
    /\ command = "add" /\ opts.api_server = None /\ settings.SERVER = None
    /\ pc = "failed" /\ error = "Requires '--api-server'"
    /\ opts.artifact # <<>>

ArtifactPosts == {i \in Posts : requests[i].url = "api/v1/artifacts/"}
SentArtifacts ==
    UNION {{requests[i].payload.artifacts[j] :
                j \in DOMAIN requests[i].payload.artifacts} : i \in ArtifactPosts}

\* a JSON object without members
EmptyObject == <<>>

\* C5: in every payload `artifact add` sends, the info of every artifact has
\* a `custom` key and its value is an empty object.
C5_CustomIsEmptyObject ==
    \A a \in SentArtifacts :
        "custom" \in DOMAIN a.info /\ a.info.custom = EmptyObject

\* C6: in every payload `artifact add` sends, the hashes of every artifact
\* have exactly one entry, under the key "blake2b-256".
C6_HashedWithBlake2b ==
    \A a \in SentArtifacts : DOMAIN a.info.hashes = {Blake2b256}

\* b is the text after the last '/' of f
IsBaseName(b, f) ==
    /\ ~Contains(b, "/")
    /\ Len(b) <= Len(f)
    /\ SubSeq(f, Len(f) - Len(b) + 1, Len(f)) = b
    /\ Len(b) < Len(f) => f[Len(f) - Len(b)] = "/"

\* q is p without its trailing '/'
IsWithoutTrailingSlashes(q, p) ==
    /\ ~EndsWith(q, "/")
    /\ Len(q) <= Len(p)
    /\ SubSeq(p, 1, Len(q)) = q
    /\ \A i \in (Len(q) + 1)..Len(p) : p[i] = "/"

LocalFileAdded == command = "add" /\ hashed # {}

\* the rest of C7: one artifact, of the size of the file, with the flags
OneArtifactOfTheFile ==
    /\ Len(payload.artifacts) = 1
    /\ payload.artifacts[1].info.length = Len(fileOps[1].content)
    /\ payload.add_task_id_to_custom = FALSE
    /\ payload.publish_artifacts = TRUE

\* C7, as stated: the payload of a local file holds one artifact, of the
\* size of the file, with add_task_id_to_custom false and publish_artifacts
\* true; its path is the base name of the file without -p, and with -p P it
\* is P without its trailing '/', then '/', then the base name.
C7_PathDefinedByUser ==
    LocalFileAdded =>
        /\ OneArtifactOfTheFile
        /\ \E b \in Refs :
              /\ IsBaseName(b, opts.artifact)
              /\ IF opts.path = None
                 THEN payload.artifacts[1].path = b
                 ELSE \E q \in Paths :
                         /\ IsWithoutTrailingSlashes(q, opts.path)
                         /\ payload.artifacts[1].path = q \o <<"/">> \o b

\* C7, amended: as C7, but the path is the base name of the file also when
\* -p is given an empty P; with a non-empty P it is P without its trailing
\* '/', then '/', then the base name.
C7_PathDefinedByNonEmptyOption ==
    LocalFileAdded =>
        /\ OneArtifactOfTheFile
        /\ \E b \in Refs :
              /\ IsBaseName(b, opts.artifact)
              /\ IF opts.path = None \/ opts.path = <<>>
                 THEN payload.artifacts[1].path = b
                 ELSE \E q \in Paths :
                         /\ IsWithoutTrailingSlashes(q, opts.path)
                         /\ payload.artifacts[1].path = q \o <<"/">> \o b

C7_Witness ==
    /\ LocalFileAdded
    /\ pc = "done"
    /\ EndsWith(opts.path, "/")
    /\ Contains(opts.artifact, "/")
    /\ payload.artifacts[1].info.length = 1

NewWithOut == command = "new" /\ opts.out # None
OutWrites ==
    {i \in Writes : fileOps[i].file = opts.out
                    /\ fileOps[i].content = [delegations |-> delegations]}

\* C8: a `metadata new` run with --out that got past the check of the server
\* ends with FILENAME holding the delegations _configure_delegations
\* produced in that run, and "Saved result to" is printed only once that
\* content was written.
C8_OutHoldsResult ==
    NewWithOut =>
        /\ pc \in {"done", "crashed"} =>
              delegations \in DelegationResults /\ OutWrites # {}
        /\ "Saved result to" \in output => OutWrites # {}

\* C9: a `metadata new` run with a SERVER configured and without --dry-run
\* that completes has sent its result to the API, with or without --out.
C9_ResultIsSent ==
    (command = "new" /\ settings.SERVER # None /\ ~opts.dry_run /\ pc = "done")
        => Posts # {}

\* C10: a `metadata new` run with --dry-run sends no request to the API,
\* whatever SERVER and --out are.
C10_DryRunSendsNothing ==
    (command = "new" /\ opts.dry_run) => requests = <<>>

C10_Witness ==
    /\ command = "new" /\ opts.dry_run
    /\ settings.SERVER # None
    /\ pc = "done"
    /\ requests = <<>>


\* ------------------------------------------------- claims, artifact download
Download == command = "download"
SuccessMessage == "Successfully completed artifact download"
TofuMessage == "Trust-on-First-Use: Initialized new root"

\* the command ended with exit code 1 and this message, and neither fetched
\* a root nor asked the TUF client for anything
Rejected(msg) ==
    /\ pc = "failed" /\ error = msg
    /\ dl.root_fetches = <<>> /\ dl.tuf_calls = <<>>

\* C11: without repositories in the configuration, a download without a
\* metadata URL is rejected with "Please specify metadata url", whether or not
\* an artifacts URL is given, and one with a metadata URL but no artifacts URL
\* with "Please specify artifacts url"; neither fetches a root nor starts a
\* download.
C11_UrlsRequired ==
    (Download /\ ~settings.has_repositories /\ pc # "start") =>
        /\ opts.metadata_url = None => Rejected("Please specify metadata url")
        /\ (opts.metadata_url # None /\ opts.artifacts_url = None) =>
               Rejected("Please specify artifacts url")

C11_Witness ==
    /\ Download /\ ~settings.has_repositories
    /\ opts.metadata_url = None /\ opts.artifacts_url = None
    /\ Rejected("Please specify metadata url")

NoCurrent == settings.CURRENT_REPOSITORY = None
NoRepositories == settings.REPOSITORIES = {}
NotListed == ~NoCurrent /\ ~NoRepositories /\ CurrentRepository = {}
NoTrustedRoot == \E r \in CurrentRepository : r.trusted_root = None
ConfigComplete ==
    ~NoCurrent /\ ~NoRepositories /\ ~NotListed /\ ~NoTrustedRoot

\* C12: a download that takes its parameters from the configuration is
\* rejected, before any root is fetched or any download started, when the
\* current repository is not set, when no repository is listed, when the
\* current repository is not among the listed ones, and when it has no
\* trusted root, each with its own message; with all four in place the
\* command goes on to the download and reports success when it ends well.
C12_ConfigurationRequired ==
    (Download /\ UsesConfig /\ pc # "start") =>
        /\ (NoCurrent /\ ~NoRepositories) =>
               Rejected("Please specify current repository")
        /\ (NoRepositories /\ ~NoCurrent) =>
               Rejected("No reposotiroes listed in the config file")
        /\ (NoCurrent /\ NoRepositories) =>
               \/ Rejected("Please specify current repository")
               \/ Rejected("No reposotiroes listed in the config file")
        /\ NotListed =>
               Rejected("Repository " \o settings.CURRENT_REPOSITORY[1]
                            \o " is missing in the configuration file")
        /\ NoTrustedRoot => Rejected("Trusted root is not cofigured.")
        /\ ConfigComplete =>
               /\ pc = "failed" => dl.tuf_calls # <<>>
               /\ pc = "done" => SuccessMessage \in output

C12_Witness ==
    /\ Download /\ UsesConfig /\ NoTrustedRoot
    /\ Rejected("Trusted root is not cofigured.")

\* the one call of the TUF client a download makes
ExpectedTufCall ==
    [metadata_url |-> dl.metadata_url,
     metadata_dir |-> _build_metadata_dir(dl.metadata_url),
     artifacts_url |-> dl.artifacts_url, artifact_name |-> opts.artifact_name,
     download_dir |-> IF opts.directory_prefix = None
                      THEN <<"cwd", "/", "downloads">>
                      ELSE opts.directory_prefix,
     prefix_targets_with_hash |-> dl.hash_prefix]

\* the one fetch of the first root that Trust-on-First-Use makes
ExpectedRootFetch ==
    [url |-> dl.metadata_url \o <<"/", "1", ".", "root", ".", "json">>,
     file |-> _build_metadata_dir(dl.metadata_url)
                  \o <<"/", "root", ".", "json">>]

\* the root of trust was settled: _download_artifact is about to call, or has
\* called, the TUF client
RootSettled == Download /\ dl.metadata_dir # None

\* C13: a download fetches <metadata_url>/1.root.json into
\* <metadata_dir>/root.json, once, and prints the Trust-on-First-Use message
\* exactly when no trusted root was supplied and the metadata directory held
\* no root.json; with a trusted root nothing is fetched from the metadata URL.
\* The fetch comes before the TUF download, and in every case the TUF
\* download is then started exactly once, with the metadata URL, the metadata
\* directory, the artifacts URL, the artifact name and the download directory.
C13_TrustOnFirstUse ==
    /\ [](RootSettled =>
            IF dl.root = None /\ ~dl.root_exists
            THEN /\ dl.root_fetches = <<ExpectedRootFetch>>
                 /\ TofuMessage \in output
            ELSE /\ dl.root_fetches = <<>>
                 /\ TofuMessage \notin output)
    /\ [](Download => (dl.root_fetches # <<>> => RootSettled))
    /\ [][dl.root_fetches' # dl.root_fetches =>
              dl.tuf_calls = <<>> /\ dl.tuf_calls' = <<>>]_vars
    /\ [](Download /\ dl.tuf_calls # <<>> =>
              RootSettled /\ dl.tuf_calls = <<ExpectedTufCall>>)
    /\ (Download /\ pc = "download_artifact") ~>
           (dl.tuf_calls = <<ExpectedTufCall>>)

C13_Witness ==
    /\ RootSettled /\ dl.root = None /\ ~dl.root_exists
    /\ dl.root_fetches = <<ExpectedRootFetch>>
    /\ dl.tuf_calls = <<ExpectedTufCall>>

TufErrors == {"refresh error", "download error"}

\* C14: when the TUF client fails to refresh the metadata or to download the
\* artifact, the command ends with exit code 1 and "Failed to download
\* artifact <name>" and never reports success; it reports success and ends
\* with exit code 0 only after the TUF client returned without an error.
C14_FailureIsReported ==
    Download =>
        /\ dl.outcome \in TufErrors =>
               /\ pc = "failed"
               /\ error = "Failed to download artifact "
                              \o opts.artifact_name[1]
               /\ SuccessMessage \notin output
        /\ (SuccessMessage \in output \/ pc = "done") =>
               /\ dl.outcome = "downloaded"
               /\ Len(dl.tuf_calls) = 1
        /\ pc = "done" => SuccessMessage \in output

C14_Witness ==
    /\ Download /\ dl.outcome = "refresh error"
    /\ pc = "failed"
    /\ error = "Failed to download artifact " \o opts.artifact_name[1]

\* ------------------------------------------------ claims, container images
Latest == <<"latest">>

\* '<server>/<path>/<image>:<tag>' for the parts of a reference: the server
\* is its host or Docker Hub, the tag its tag or 'latest', the image its last
\* component and the path the ones before it, 'library' for a single
\* component on Docker Hub
Normalized(ref) ==
    LET server == IF ref.host = None THEN DockerHub ELSE ref.host
        tag == IF ref.tag = None THEN Latest ELSE ref.tag
        n == Len(ref.image_path)
        image == ref.image_path[n]
        path == IF n > 1 THEN Join(SubSeq(ref.image_path, 1, n - 1), "/")
                ELSE IF server = DockerHub THEN <<"library">> ELSE <<>>
    IN  IF path = <<>>
        THEN server \o <<"/">> \o image \o <<":">> \o tag
        ELSE server \o <<"/">> \o path \o <<"/">> \o image \o <<":">> \o tag

\* C15: _parse_container_url returns, for every reference made of an optional
\* registry host, a non-empty image path and an optional tag, the string
\* '<server>/<path>/<image>:<tag>' of its parts.
C15_ReferenceIsNormalized ==
    pc \in {"parsed", "crashed"} /\ parsed # NotParsed =>
        parsed.result = Normalized(parsed.reference)

\* add_container_oci returned the payload of an OCI index
IndexAdded ==
    command = "add" /\ oci # NoOci /\ pc \in {"add_send", "done", "failed"}

\* the normalized reference without its registry host and tag, and its tag
BaseOf(image_ref) ==
    SubSeq(image_ref, FirstIndexOf(image_ref, "/") + 1,
           LastIndexOf(image_ref, ":") - 1)
TagOf(image_ref) ==
    SubSeq(image_ref, LastIndexOf(image_ref, ":") + 1, Len(image_ref))

ManifestFetches == SelectSeq(fetches, LAMBDA f : f.call = "get_manifest")

\* the artifact of a document at a path: its length and its sha256
ArtifactOf(doc, path) ==
    [info |-> [length |-> SerialLen[doc.dumps],
               hashes |-> (<<"sha256">> :> <<doc.dumps>>)],
     path |-> path]

Polling == command = "ceremony" /\ pc \in {"bootstrap_state", "bootstrap_sleep"}

\* the server never answers with SUCCESS, FAILURE or an error
NeverAnswered == Polling /\ taskServer.pending = Forever

\* C17: _bootstrap_state ends when the server comes to answer with SUCCESS,
\* with FAILURE, with a status other than 200 or with a malformed response;
\* while the server keeps answering 200 with another state it neither
\* returns nor fails and goes on polling, without any bound.
C17_PollsUntilAnswered ==
    /\ (Polling /\ taskServer.pending # Forever) ~> ~Polling
    /\ [](NeverAnswered => [](Polling))
    /\ [](NeverAnswered => []<>(pc = "bootstrap_state"))
    /\ [](NeverAnswered => []<>(pc = "bootstrap_sleep"))

C17_Witness ==
    /\ NeverAnswered
    /\ pc = "bootstrap_sleep"
    /\ cer.polls > MaxPolls

====
